---------------------------- MODULE Spec2Model ----------------------------
(***************************************************************************)
(* Model of the lovetown haptic bridge.                                    *)
(*                                                                         *)
(* One behaviour of the model is one call of an entry point                *)
(* (lovetownConnect, or lovetownSend which forwards to it) together with   *)
(* the events the Buttplug client library delivers to the listeners the    *)
(* call registers.  JavaScript runs every synchronous stretch of code to   *)
(* completion, so each action is one such stretch: from an event (the      *)
(* call, a server reply that settles an awaited promise, a server          *)
(* notification, a timer expiry) up to the next await or the end of the    *)
(* function.                                                               *)
(*                                                                         *)
(* Numbers: intensities and positions are in tenths (0.7 is 7), durations  *)
(* and the clock are in milliseconds.                                      *)
(***************************************************************************)
EXTENDS Integers, Sequences, FiniteSets, TLC

\* ---------------------------------------------------------------- bounds
\* Most devices the server announces in one session.
MaxDevices == 2

Devices == 1..MaxDevices

\* ------------------------------------------------------- JavaScript values
Undef == [t |-> "undefined"]
Num(n) == [t |-> "number", v |-> n]
Arr(s) == [t |-> "array", v |-> s]

\* ToBoolean of the values an option can hold: undefined and 0 are falsy,
\* every other number and every array (the empty one too) is truthy.
Truthy(x) ==
  CASE x.t = "undefined" -> FALSE
    [] x.t = "number" -> x.v # 0
    [] x.t = "array" -> TRUE

\* ------------------------------------------------------------- addresses
\* An address is a sequence of characters.  new URL(address) is called
\* without a base, so it throws unless the address starts with a scheme
\* (a letter, then letters or digits, then ":"); the websocket schemes are
\* special schemes and also need a non-empty host.
Letters == {"w", "s", "h", "x"}
Digits == {"1"}
SpecialSchemes == {<<"w", "s">>, <<"w", "s", "s">>}

Colons(a) == {i \in 1..Len(a) : a[i] = ":"}
FirstColon(a) == CHOOSE i \in Colons(a) : \A j \in Colons(a) : i <= j
SchemeOf(a) == SubSeq(a, 1, FirstColon(a) - 1)

IsScheme(s) ==
  /\ Len(s) > 0
  /\ s[1] \in Letters
  /\ \A i \in 1..Len(s) : s[i] \in Letters \cup Digits

RECURSIVE StripSlashes(_)
StripSlashes(r) ==
  IF r # <<>> /\ Head(r) = "/" THEN StripSlashes(Tail(r)) ELSE r

RestOf(a) == SubSeq(a, FirstColon(a) + 1, Len(a))

\* The host of a special-scheme address: what follows the slashes, up to
\* the next "/".
HostOf(a) ==
  LET r == StripSlashes(RestOf(a))
      ends == {i \in 1..Len(r) : r[i] = "/"}
      stop == IF ends = {} THEN Len(r) + 1
              ELSE CHOOSE i \in ends : \A j \in ends : i <= j
  IN SubSeq(r, 1, stop - 1)

\* new URL(address): the parsed address, or the TypeError it throws.
NewURL(a) ==
  IF Colons(a) = {} \/ ~IsScheme(SchemeOf(a))
    THEN [ok |-> FALSE]
  ELSE IF SchemeOf(a) \in SpecialSchemes
    THEN IF HostOf(a) = <<>>
           THEN [ok |-> FALSE]
           ELSE [ok |-> TRUE, scheme |-> SchemeOf(a), special |-> TRUE,
                 rest |-> HostOf(a)]
  ELSE [ok |-> TRUE, scheme |-> SchemeOf(a), special |-> FALSE,
        rest |-> RestOf(a)]

\* URL.toString(): the serialised address handed to the connector.
URLToString(u) ==
  IF u.special THEN u.scheme \o <<":", "/", "/">> \o u.rest \o <<"/">>
  ELSE u.scheme \o <<":">> \o u.rest

Addresses ==
  { <<"w", "s", ":", "/", "/", "h">>,
    <<"w", "s", ":", "/", "/">>,
    <<"h">>,
    <<":", "h">>,
    <<"1", ":", "h">>,
    <<>> }


\* ---------------------------------------------------------------- inputs
\* What a caller may pass: the action fields of LovetownOptions, each of
\* which may be left out.  The samples cover every combination of truthy
\* and falsy vibrate, linear and linearDuration, scalars and arrays.
Payload(v, l, ld) == [vibrate |-> v, linear |-> l, linearDuration |-> ld]

Waypoints == Arr(<< <<5, 0>>, <<10, 500>> >>)

Payloads ==
  { Payload(Num(7), Undef, Undef),
    Payload(Arr(<<5>>), Undef, Undef),
    Payload(Num(10), Num(5), Num(1000)),
    Payload(Num(0), Num(5), Num(1000)),
    Payload(Undef, Waypoints, Num(1000)),
    Payload(Undef, Num(5), Undef),
    Payload(Undef, Waypoints, Num(0)),
    Payload(Num(0), Undef, Undef),
    Payload(Undef, Num(0), Num(1000)),
    Payload(Undef, Undef, Undef) }

\* lovetownSend takes vibrate as a number.
SendPayloads ==
  { Payload(Num(10), Num(5), Num(1000)),
    Payload(Num(0), Num(5), Num(1000)),
    Payload(Undef, Num(5), Undef) }

\* Request timeouts (ms).
Timeouts == {0, 2}

Options(payloads) ==
  { [connectAddress |-> a, timeout |-> t, vibrate |-> p.vibrate,
     linear |-> p.linear, linearDuration |-> p.linearDuration] :
      a \in Addresses, t \in Timeouts, p \in payloads }

EntryPoints == {"lovetownConnect", "lovetownSend"}

\* What the server can announce: a device declares its vibration actuators
\* (vibrateAttributes) and its linear actuators (linearAttributes).
ActuatorCounts == {0, 1}
DeviceKinds == [vib : ActuatorCounts, lin : ActuatorCounts]
NoDevice == [vib |-> 0, lin |-> 0]

\* ----------------------------------------------------------------- state
VARIABLES
  entry,          \* the entry point that was called
  input,          \* the caller's arguments
  cxt,            \* the options object lovetownConnect works on
  pc,             \* where the entry point's async function is
  clientCreated,  \* new ButtplugClient(...) has run
  listeners,      \* the events the client has a listener for
  connectorUrl,   \* the address the connector was built with
  connectCalls,   \* how often client.connect was called
  startScanCalls, \* how often client.startScanning was called
  conn,           \* the connection, as client.connect sees it
  scanning,       \* whether the server is scanning
  console,        \* what console.log has printed
  wire,           \* requests sent to the server and not yet answered
  nAdded,         \* how many devices the server has announced
  dev,            \* each announced device's declared actuators
  known,          \* announced while the connection was being established
  hpc,            \* where each device's deviceadded listener call is
  cmd,            \* the action command sent to each device
  accepted,       \* the device has accepted its action command
  stopScanReq,    \* the device's listener call has requested stopScanning
  sent,           \* how many action commands were submitted to the device
  failed,         \* the device rejected an action command
  timer,          \* the stop timer armed for each device
  elapsed,        \* ms since the device accepted its command (up to timeout)
  stopIssued,     \* device.stop() has been called on the device
  links,          \* how many a.linkOn elements the page has
  wired,          \* the links have a click listener for the device
  clicks,         \* how many clicks the user has made
  rtimers,        \* ms left on each pending 3-second timer of the device
  age,            \* ms since the device was last sent vibrate (up to 3000)
  early           \* stop() was called sooner than that after a vibrate

mainVars == <<entry, input, cxt, pc, clientCreated, listeners, connectorUrl,
              connectCalls, startScanCalls>>
serverVars == <<conn, scanning, console, wire>>
deviceVars == <<nAdded, dev, known>>
handlerVars == <<hpc, cmd, accepted, stopScanReq, sent, failed>>
timerVars == <<timer, elapsed, stopIssued>>
pageVars == <<links, wired, clicks, rtimers, age, early>>
vars == <<mainVars, serverVars, deviceVars, handlerVars, timerVars, pageVars>>

NoCxt == [connectAddress |-> <<>>, timeout |-> 0, vibrate |-> Undef,
          linear |-> Undef, linearDuration |-> Undef]
NoCmd == [kind |-> "none"]
NoTimer == [state |-> "none", remaining |-> 0]

\* setTimeout(..., 3000) in the click listener of lovetownRuntime.
RuntimeStopDelay == 3000

\* device.vibrate(1.0) in the click listener, in tenths like every
\* intensity here.
RuntimeIntensity == 10

\* No device wired, no click made, no timer pending.
PageInit ==
  /\ wired = [d \in Devices |-> FALSE]
  /\ clicks = 0
  /\ rtimers = [d \in Devices |-> <<>>]
  /\ age = [d \in Devices |-> RuntimeStopDelay]
  /\ early = [d \in Devices |-> FALSE]

\* Nothing has run yet: no client, no connection, no device.
SessionInit ==
  /\ cxt = NoCxt
  /\ pc = "entry"
  /\ clientCreated = FALSE
  /\ listeners = {}
  /\ connectorUrl = <<>>
  /\ connectCalls = 0
  /\ startScanCalls = 0
  /\ conn = "none"
  /\ scanning = FALSE
  /\ console = {}
  /\ wire = <<>>
  /\ nAdded = 0
  /\ dev = [d \in Devices |-> NoDevice]
  /\ known = [d \in Devices |-> FALSE]
  /\ hpc = [d \in Devices |-> "idle"]
  /\ cmd = [d \in Devices |-> NoCmd]
  /\ accepted = [d \in Devices |-> FALSE]
  /\ stopScanReq = [d \in Devices |-> FALSE]
  /\ sent = [d \in Devices |-> 0]
  /\ failed = [d \in Devices |-> FALSE]
  /\ timer = [d \in Devices |-> NoTimer]
  /\ elapsed = [d \in Devices |-> 0]
  /\ stopIssued = [d \in Devices |-> FALSE]

Init ==
  /\ entry \in EntryPoints
  /\ input \in Options(IF entry = "lovetownSend" THEN SendPayloads
                        ELSE Payloads)
  /\ SessionInit
  /\ links = 0
  /\ PageInit

\* ------------------------------------------------------- the entry points
\* ConnectBody without the address check: the raw string goes to the
\* connector whatever it is.
ConnectBodyUnparsed(c) ==
  /\ cxt' = c
  /\ clientCreated' = TRUE
  /\ listeners' = {"deviceadded", "scanningfinished"}
  /\ connectorUrl' = c.connectAddress
  /\ connectCalls' = connectCalls + 1
  /\ conn' = "handshake"
  /\ pc' = "awaitConnect"
  /\ UNCHANGED <<entry, input, startScanCalls, scanning, console, wire,
                 deviceVars, handlerVars, timerVars, pageVars>>

\* ConnectBody with the listeners registered after the connect call
\* instead of before it: nothing listens while the client connects.
ConnectBodyListensLate(c) ==
  LET u == NewURL(c.connectAddress) IN
  /\ cxt' = c
  /\ IF ~u.ok
       THEN /\ pc' = "threw"
            /\ UNCHANGED <<clientCreated, listeners, connectorUrl,
                           connectCalls, conn>>
       ELSE /\ clientCreated' = TRUE
            /\ listeners' = {}
            /\ connectorUrl' = URLToString(u)
            /\ connectCalls' = connectCalls + 1
            /\ conn' = "handshake"
            /\ pc' = "awaitConnect"
  /\ UNCHANGED <<entry, input, startScanCalls, scanning, console, wire,
                 deviceVars, handlerVars, timerVars, pageVars>>

\* The body of lovetownConnect up to its first await: parse the address
\* (a throw ends the call), create the client, register both listeners,
\* build the connector and call client.connect.
ConnectBody(c) ==
  LET u == NewURL(c.connectAddress) IN
  /\ cxt' = c
  /\ IF ~u.ok
       THEN /\ pc' = "threw"
            /\ UNCHANGED <<clientCreated, listeners, connectorUrl,
                           connectCalls, conn>>
       ELSE /\ clientCreated' = TRUE
            /\ listeners' = {"deviceadded", "scanningfinished"}
            /\ connectorUrl' = URLToString(u)
            /\ connectCalls' = connectCalls + 1
            /\ conn' = "handshake"
            /\ pc' = "awaitConnect"
  /\ UNCHANGED <<entry, input, startScanCalls, scanning, console, wire,
                 deviceVars, handlerVars, timerVars, pageVars>>

LovetownConnect ==
  /\ entry = "lovetownConnect"
  /\ pc = "entry"
  /\ ConnectBody(input)

\* LovetownSend with the last two arguments passed in the wrong order.
LovetownSendSwapped ==
  /\ entry = "lovetownSend"
  /\ pc = "entry"
  /\ ConnectBody([connectAddress |-> input.connectAddress,
                  timeout |-> input.timeout,
                  vibrate |-> input.vibrate,
                  linear |-> input.linearDuration,
                  linearDuration |-> input.linear])

\* lovetownSend builds the options object from its five positional
\* arguments and calls lovetownConnect with it.
LovetownSend ==
  /\ entry = "lovetownSend"
  /\ pc = "entry"
  /\ ConnectBody([connectAddress |-> input.connectAddress,
                  timeout |-> input.timeout,
                  vibrate |-> input.vibrate,
                  linear |-> input.linear,
                  linearDuration |-> input.linearDuration])

\* --------------------------------------------------- connection (library)
\* client.connect opens the socket and exchanges server info; a failure
\* there rejects the promise.  After that it asks for the devices the
\* server already has, announces them, and resolves.
ConnectHandshake ==
  /\ conn = "handshake"
  /\ conn' = "listing"
  /\ UNCHANGED <<mainVars, scanning, console, wire, deviceVars, handlerVars,
                 timerVars, pageVars>>

\* ConnectReject with the catch block's return left out: the function logs
\* the error and goes on to client.startScanning().
ConnectRejectFallsThrough ==
  /\ pc = "awaitConnect"
  /\ conn = "handshake"
  /\ conn' = "failed"
  /\ console' = console \cup {"error"}
  /\ startScanCalls' = startScanCalls + 1
  /\ wire' = Append(wire, [op |-> "startScanning", d |-> 0])
  /\ pc' = "awaitStartScanning"
  /\ UNCHANGED <<entry, input, cxt, clientCreated, listeners, connectorUrl,
                 connectCalls, scanning, deviceVars, handlerVars, timerVars,
                 pageVars>>

\* catch (e) { console.log(e); return; }
ConnectReject ==
  /\ pc = "awaitConnect"
  /\ conn = "handshake"
  /\ conn' = "failed"
  /\ console' = console \cup {"error"}
  /\ pc' = "returned"
  /\ UNCHANGED <<entry, input, cxt, clientCreated, listeners, connectorUrl,
                 connectCalls, startScanCalls, scanning, wire, deviceVars,
                 handlerVars, timerVars, pageVars>>

\* await client.connect(connector) resolves; the function goes on to
\* await client.startScanning().
ConnectResolve ==
  /\ pc = "awaitConnect"
  /\ conn = "listing"
  /\ conn' = "open"
  /\ startScanCalls' = startScanCalls + 1
  /\ wire' = Append(wire, [op |-> "startScanning", d |-> 0])
  /\ pc' = "awaitStartScanning"
  /\ UNCHANGED <<entry, input, cxt, clientCreated, listeners, connectorUrl,
                 connectCalls, scanning, console, deviceVars, handlerVars,
                 timerVars, pageVars>>

\* The server answers requests in the order they were sent.
StartScanningOk ==
  /\ wire # <<>>
  /\ Head(wire).op = "startScanning"
  /\ wire' = Tail(wire)
  /\ scanning' = TRUE
  /\ pc' = "done"
  /\ UNCHANGED <<entry, input, cxt, clientCreated, listeners, connectorUrl,
                 connectCalls, startScanCalls, conn, console, deviceVars,
                 handlerVars, timerVars, pageVars>>

\* startScanning is awaited outside the try block: a rejection rejects the
\* entry point's promise.
StartScanningErr ==
  /\ wire # <<>>
  /\ Head(wire).op = "startScanning"
  /\ wire' = Tail(wire)
  /\ pc' = "rejected"
  /\ UNCHANGED <<entry, input, cxt, clientCreated, listeners, connectorUrl,
                 connectCalls, startScanCalls, conn, scanning, console,
                 deviceVars, handlerVars, timerVars, pageVars>>

\* ------------------------------------------------ the deviceadded listener
\* Classify with the two branches flattened: a vibrate request falls
\* through to the linear branch when the device has no vibration actuator.
ClassifyFallThrough(c, caps) ==
  IF Truthy(c.vibrate) /\ caps.vib > 0 THEN "vibrate"
  ELSE IF Truthy(c.linear) /\ Truthy(c.linearDuration) /\ caps.lin > 0
    THEN "linear"
  ELSE "none"

\* Classify with the linearDuration test left out.
ClassifyNoDuration(c, caps) ==
  IF Truthy(c.vibrate)
    THEN IF caps.vib > 0 THEN "vibrate" ELSE "none"
  ELSE IF Truthy(c.linear)
    THEN IF caps.lin > 0 THEN "linear" ELSE "none"
  ELSE "none"

\* Classify with the linear actuator test off by one (>= 0 for > 0).
ClassifyLinearUnchecked(c, caps) ==
  IF Truthy(c.vibrate)
    THEN IF caps.vib > 0 THEN "vibrate" ELSE "none"
  ELSE IF Truthy(c.linear) /\ Truthy(c.linearDuration)
    THEN IF caps.lin >= 0 THEN "linear" ELSE "none"
  ELSE "none"

\* Classify with the branches in the other order: linear is tried first.
ClassifyLinearFirst(c, caps) ==
  IF Truthy(c.linear) /\ Truthy(c.linearDuration)
    THEN IF caps.lin > 0 THEN "linear" ELSE "none"
  ELSE IF Truthy(c.vibrate)
    THEN IF caps.vib > 0 THEN "vibrate" ELSE "none"
  ELSE "none"

\* Which action the listener sends to a device with actuators `caps`:
\*   if (cxt.vibrate) { if (device.vibrateAttributes.length > 0) ... }
\*   else if (cxt.linear && cxt.linearDuration) {
\*     if (device.linearAttributes.length > 0) ... }
Classify(c, caps) ==
  IF Truthy(c.vibrate)
    THEN IF caps.vib > 0 THEN "vibrate" ELSE "none"
  ELSE IF Truthy(c.linear) /\ Truthy(c.linearDuration)
    THEN IF caps.lin > 0 THEN "linear" ELSE "none"
  ELSE "none"

\* ActionCommand with the vibration always at full intensity.
ActionCommandFullIntensity(c, kind) ==
  IF kind = "vibrate"
    THEN [kind |-> "vibrate", arg |-> Num(10), duration |-> Undef]
    ELSE [kind |-> "linear", arg |-> c.linear, duration |-> c.linearDuration]

\* The command the listener submits: device.vibrate(cxt.vibrate) or
\* device.linear(cxt.linear, cxt.linearDuration).
ActionCommand(c, kind) ==
  IF kind = "vibrate"
    THEN [kind |-> "vibrate", arg |-> c.vibrate, duration |-> Undef]
    ELSE [kind |-> "linear", arg |-> c.linear, duration |-> c.linearDuration]

\* OnDeviceAdded with the await on the action command left out: the
\* stop-scanning request goes out before the command is accepted.
OnDeviceAddedNoAwait(d, caps) ==
  LET kind == Classify(cxt, caps) IN
  /\ cmd' = IF kind # "none"
              THEN [cmd EXCEPT ![d] = ActionCommand(cxt, kind)]
              ELSE cmd
  /\ sent' = IF kind # "none" THEN [sent EXCEPT ![d] = @ + 1] ELSE sent
  /\ wire' = Append(wire, [op |-> "stopScanning", d |-> d])
  /\ stopScanReq' = [stopScanReq EXCEPT ![d] = TRUE]
  /\ hpc' = [hpc EXCEPT ![d] = "awaitStopScanning"]

\* The listener's call for device d runs up to its first await: the action
\* command when the device qualifies, client.stopScanning() otherwise.
OnDeviceAdded(d, caps) ==
  LET kind == Classify(cxt, caps) IN
  IF kind # "none"
    THEN /\ cmd' = [cmd EXCEPT ![d] = ActionCommand(cxt, kind)]
         /\ sent' = [sent EXCEPT ![d] = @ + 1]
         /\ wire' = Append(wire, [op |-> kind, d |-> d])
         /\ hpc' = [hpc EXCEPT ![d] = "awaitAction"]
         /\ UNCHANGED stopScanReq
    ELSE /\ wire' = Append(wire, [op |-> "stopScanning", d |-> d])
         /\ stopScanReq' = [stopScanReq EXCEPT ![d] = TRUE]
         /\ hpc' = [hpc EXCEPT ![d] = "awaitStopScanning"]
         /\ UNCHANGED <<cmd, sent>>

\* The server announces a device: one it already had, while the connection
\* is being established, or a new one later.  The client emits
\* "deviceadded"; a device announced with no listener registered is lost.
DeviceAdded(caps) ==
  /\ conn \in {"listing", "open"}
  /\ nAdded < MaxDevices
  /\ LET d == nAdded + 1 IN
       /\ nAdded' = d
       /\ dev' = [dev EXCEPT ![d] = caps]
       /\ known' = [known EXCEPT ![d] = (conn = "listing")]
       /\ IF "deviceadded" \in listeners
            THEN OnDeviceAdded(d, caps)
            ELSE UNCHANGED <<wire, hpc, cmd, stopScanReq, sent>>
  /\ UNCHANGED <<mainVars, conn, scanning, console, accepted, failed,
                 timerVars, pageVars>>

\* StopTimer with the delay left out: setTimeout(...) fires at once.
StopTimerNoDelay(c) == [state |-> "armed", remaining |-> 0]

\* The timer setTimeout(..., cxt.timeout) arms.
StopTimer(c) == [state |-> "armed", remaining |-> c.timeout]

\* await device.vibrate(...) / device.linear(...) resolves: the listener
\* arms the stop timer and goes on to await client.stopScanning().
ActionOk(d) ==
  /\ wire # <<>>
  /\ Head(wire).op \in {"vibrate", "linear"}
  /\ Head(wire).d = d
  /\ accepted' = [accepted EXCEPT ![d] = TRUE]
  /\ timer' = [timer EXCEPT ![d] = StopTimer(cxt)]
  /\ elapsed' = [elapsed EXCEPT ![d] = 0]
  /\ wire' = Append(Tail(wire), [op |-> "stopScanning", d |-> d])
  /\ stopScanReq' = [stopScanReq EXCEPT ![d] = TRUE]
  /\ hpc' = [hpc EXCEPT ![d] = "awaitStopScanning"]
  /\ UNCHANGED <<mainVars, conn, scanning, console, deviceVars, cmd, sent,
                 failed, stopIssued, pageVars>>

\* The command is rejected: the await throws and the listener call ends.
ActionErrRetries(d) ==
  /\ wire # <<>>
  /\ Head(wire).op \in {"vibrate", "linear"}
  /\ Head(wire).d = d
  /\ sent[d] < 2
  /\ wire' = Append(Tail(wire), Head(wire))
  /\ sent' = [sent EXCEPT ![d] = @ + 1]
  /\ failed' = [failed EXCEPT ![d] = TRUE]
  /\ UNCHANGED <<mainVars, conn, scanning, console, deviceVars, cmd, hpc,
                 accepted, stopScanReq, timerVars, pageVars>>

ActionErr(d) ==
  /\ wire # <<>>
  /\ Head(wire).op \in {"vibrate", "linear"}
  /\ Head(wire).d = d
  /\ wire' = Tail(wire)
  /\ failed' = [failed EXCEPT ![d] = TRUE]
  /\ hpc' = [hpc EXCEPT ![d] = "threw"]
  /\ UNCHANGED <<mainVars, conn, scanning, console, deviceVars, cmd, sent,
                 accepted, stopScanReq, timerVars, pageVars>>

\* await client.stopScanning() resolves: the server has stopped scanning.
StopScanningOk(d) ==
  /\ wire # <<>>
  /\ Head(wire).op = "stopScanning"
  /\ Head(wire).d = d
  /\ wire' = Tail(wire)
  /\ scanning' = FALSE
  /\ hpc' = [hpc EXCEPT ![d] = "done"]
  /\ UNCHANGED <<mainVars, conn, console, deviceVars, cmd, accepted,
                 stopScanReq, sent, failed, timerVars, pageVars>>

StopScanningErr(d) ==
  /\ wire # <<>>
  /\ Head(wire).op = "stopScanning"
  /\ Head(wire).d = d
  /\ wire' = Tail(wire)
  /\ hpc' = [hpc EXCEPT ![d] = "threw"]
  /\ UNCHANGED <<mainVars, conn, scanning, console, deviceVars, cmd,
                 accepted, stopScanReq, sent, failed, timerVars, pageVars>>

\* ------------------------------------------- the scanningfinished listener
\* ScanningFinished with a listener that also clears the pending stop
\* timers.
ScanningFinishedCancels ==
  /\ conn = "open"
  /\ scanning
  /\ scanning' = FALSE
  /\ console' = console \cup {"Scanning Finished"}
  /\ timer' = [d \in Devices |->
                 IF timer[d].state = "armed" THEN NoTimer ELSE timer[d]]
  /\ UNCHANGED <<mainVars, conn, wire, deviceVars, handlerVars, elapsed,
                 stopIssued, pageVars>>

\* ScanningFinished with a listener that asks for another scan.
ScanningFinishedRestarts ==
  /\ conn = "open"
  /\ scanning
  /\ scanning' = FALSE
  /\ console' = console \cup {"Scanning Finished"}
  /\ startScanCalls' = startScanCalls + 1
  /\ wire' = Append(wire, [op |-> "startScanning", d |-> 0])
  /\ UNCHANGED <<entry, input, cxt, pc, clientCreated, listeners,
                 connectorUrl, connectCalls, conn, deviceVars, handlerVars,
                 timerVars, pageVars>>

\* The server's scan ends by itself; the listener logs it.
ScanningFinished ==
  /\ conn = "open"
  /\ scanning
  /\ scanning' = FALSE
  /\ console' = IF "scanningfinished" \in listeners
                  THEN console \cup {"Scanning Finished"}
                  ELSE console
  /\ UNCHANGED <<mainVars, conn, wire, deviceVars, handlerVars, timerVars,
                 pageVars>>

\* ---------------------------------------------------------------- timers
Min(a, b) == IF a < b THEN a ELSE b

\* One millisecond passes while a stop timer is still running.
Tick ==
  /\ \E d \in Devices : timer[d].state = "armed" /\ timer[d].remaining > 0
  /\ timer' = [d \in Devices |->
                 IF timer[d].state = "armed" /\ timer[d].remaining > 0
                   THEN [timer[d] EXCEPT !.remaining = @ - 1]
                   ELSE timer[d]]
  /\ elapsed' = [d \in Devices |->
                   IF accepted[d] /\ ~stopIssued[d]
                     THEN Min(elapsed[d] + 1, cxt.timeout)
                     ELSE elapsed[d]]
  /\ UNCHANGED <<mainVars, serverVars, deviceVars, handlerVars, stopIssued,
                 pageVars>>

\* The timer's callback runs: await device.stop().  Nothing follows the
\* await, so the server's answer changes nothing.
TimerFire(d) ==
  /\ timer[d].state = "armed"
  /\ timer[d].remaining = 0
  /\ timer' = [timer EXCEPT ![d] = [state |-> "fired", remaining |-> 0]]
  /\ stopIssued' = [stopIssued EXCEPT ![d] = TRUE]
  /\ UNCHANGED <<mainVars, serverVars, deviceVars, handlerVars, elapsed,
                 pageVars>>

\* ---------------------------------------------------------- specification
Next ==
  \/ LovetownConnect
  \/ LovetownSend
  \/ ConnectHandshake
  \/ ConnectReject
  \/ ConnectResolve
  \/ StartScanningOk
  \/ StartScanningErr
  \/ \E caps \in DeviceKinds : DeviceAdded(caps)
  \/ \E d \in Devices : ActionOk(d)
  \/ \E d \in Devices : ActionErr(d)
  \/ \E d \in Devices : StopScanningOk(d)
  \/ \E d \in Devices : StopScanningErr(d)
  \/ ScanningFinished
  \/ Tick
  \/ \E d \in Devices : TimerFire(d)

Spec == Init /\ [][Next]_vars

\* ---------------------------------------------------------------------------
\* lovetownRuntime: the same connection and scan, but a discovered vibrating
\* device is wired to the page's a.linkOn links, and each click vibrates it
\* for three seconds.

MaxClicks == 2

\* How many a.linkOn elements the page may have.
LinkCounts == {0, 1, 2}

\* Time passes in steps of one second.
TickSteps == {1000}

RuntimeInputs == { [connectAddress |-> a] : a \in Addresses }

RuntimeInit ==
  /\ entry = "lovetownRuntime"
  /\ input \in RuntimeInputs
  /\ SessionInit
  /\ links \in LinkCounts
  /\ PageInit

\* The body of lovetownRuntime up to its first await is that of
\* lovetownConnect: parse the address, create the client, register both
\* listeners, build the connector and call client.connect.
LovetownRuntime ==
  /\ entry = "lovetownRuntime"
  /\ pc = "entry"
  /\ ConnectBody(input)

\* The deviceadded listener: a device with a vibration actuator gets a
\* click listener on every a.linkOn link; then client.stopScanning() is
\* awaited.  No command is sent here.
RuntimeDeviceAdded(caps) ==
  /\ conn \in {"listing", "open"}
  /\ nAdded < MaxDevices
  /\ LET d == nAdded + 1 IN
       /\ nAdded' = d
       /\ dev' = [dev EXCEPT ![d] = caps]
       /\ known' = [known EXCEPT ![d] = (conn = "listing")]
       /\ IF "deviceadded" \in listeners
            THEN /\ wired' = [wired EXCEPT ![d] = caps.vib > 0]
                 /\ wire' = Append(wire, [op |-> "stopScanning", d |-> d])
                 /\ stopScanReq' = [stopScanReq EXCEPT ![d] = TRUE]
                 /\ hpc' = [hpc EXCEPT ![d] = "awaitStopScanning"]
            ELSE UNCHANGED <<wired, wire, stopScanReq, hpc>>
  /\ UNCHANGED <<mainVars, conn, scanning, console, cmd, accepted, sent,
                 failed, timerVars, links, clicks, rtimers, age, early>>

\* The devices the links have a listener for, in the order the listeners
\* were added.
WiredDevices == SelectSeq([d \in Devices |-> d], LAMBDA d : wired[d])

\* device.vibrate(1.0)
ClickCommand ==
  [kind |-> "vibrate", arg |-> Num(RuntimeIntensity), duration |-> Undef]

\* The user clicks link l: each click listener on it runs up to its await
\* and submits device.vibrate(1.0) for its device.
Click(l) ==
  /\ l \in 1..links
  /\ clicks < MaxClicks
  /\ WiredDevices # <<>>
  /\ clicks' = clicks + 1
  /\ wire' = wire \o [i \in 1..Len(WiredDevices) |->
                        [op |-> "vibrate", d |-> WiredDevices[i]]]
  /\ cmd' = [d \in Devices |-> IF wired[d] THEN ClickCommand ELSE cmd[d]]
  /\ sent' = [d \in Devices |-> IF wired[d] THEN sent[d] + 1 ELSE sent[d]]
  /\ age' = [d \in Devices |-> IF wired[d] THEN 0 ELSE age[d]]
  /\ UNCHANGED <<mainVars, conn, scanning, console, deviceVars, hpc,
                 accepted, stopScanReq, failed, timerVars, links, wired,
                 rtimers, early>>

\* await device.vibrate(1.0) resolves: the click listener arms a timer of
\* three seconds for device.stop().
ClickVibrateOk(d) ==
  /\ wire # <<>>
  /\ Head(wire) = [op |-> "vibrate", d |-> d]
  /\ wire' = Tail(wire)
  /\ accepted' = [accepted EXCEPT ![d] = TRUE]
  /\ rtimers' = [rtimers EXCEPT ![d] = Append(@, RuntimeStopDelay)]
  /\ UNCHANGED <<mainVars, conn, scanning, console, deviceVars, hpc, cmd,
                 stopScanReq, sent, failed, timerVars, links, wired, clicks,
                 age, early>>

\* The device rejects the command: the click listener ends, no timer.
ClickVibrateErr(d) ==
  /\ wire # <<>>
  /\ Head(wire) = [op |-> "vibrate", d |-> d]
  /\ wire' = Tail(wire)
  /\ failed' = [failed EXCEPT ![d] = TRUE]
  /\ UNCHANGED <<mainVars, conn, scanning, console, deviceVars, hpc, cmd,
                 accepted, stopScanReq, sent, timerVars, pageVars>>

TimerPending == \E d \in Devices : rtimers[d] # <<>>

\* dt ms pass while some timer is pending; no due timer is passed over.
RuntimeTick(dt) ==
  /\ TimerPending
  /\ \A d \in Devices : \A i \in 1..Len(rtimers[d]) : rtimers[d][i] >= dt
  /\ rtimers' = [d \in Devices |->
                   [i \in 1..Len(rtimers[d]) |-> rtimers[d][i] - dt]]
  /\ age' = [d \in Devices |-> Min(age[d] + dt, RuntimeStopDelay)]
  /\ UNCHANGED <<mainVars, serverVars, deviceVars, handlerVars, timerVars,
                 links, wired, clicks, early>>

\* A due timer's callback runs: device.stop().  The stop reaches the
\* device no sooner than this.
RuntimeTimerFire(d) ==
  /\ rtimers[d] # <<>>
  /\ Head(rtimers[d]) = 0
  /\ rtimers' = [rtimers EXCEPT ![d] = Tail(@)]
  /\ stopIssued' = [stopIssued EXCEPT ![d] = TRUE]
  /\ early' = [early EXCEPT ![d] = @ \/ age[d] < RuntimeStopDelay]
  /\ UNCHANGED <<mainVars, serverVars, deviceVars, handlerVars, timer,
                 elapsed, links, wired, clicks, age>>

RuntimeNext ==
  \/ LovetownRuntime
  \/ ConnectHandshake
  \/ ConnectReject
  \/ ConnectResolve
  \/ StartScanningOk
  \/ StartScanningErr
  \/ \E caps \in DeviceKinds : RuntimeDeviceAdded(caps)
  \/ \E d \in Devices : StopScanningOk(d)
  \/ \E d \in Devices : StopScanningErr(d)
  \/ ScanningFinished
  \/ \E l \in 1..links : Click(l)
  \/ \E d \in Devices : ClickVibrateOk(d)
  \/ \E d \in Devices : ClickVibrateErr(d)
  \/ \E dt \in TickSteps : RuntimeTick(dt)
  \/ \E d \in Devices : RuntimeTimerFire(d)

RuntimeSpec == RuntimeInit /\ [][RuntimeNext]_vars

\* The sessions followed for liveness: a vibrate request and a linear
\* request, through either entry point, with a timeout that needs time to
\* pass.
LivePayloads ==
  { Payload(Num(10), Num(5), Num(1000)),
    Payload(Num(0), Num(5), Num(1000)) }

LiveInit ==
  /\ Init
  /\ input \in Options(LivePayloads)
  /\ input.timeout > 0

\* Time passes and a due timer's callback runs: the host's event loop
\* guarantees both.  Nothing is assumed of the server.
FairSpec ==
  /\ LiveInit
  /\ [][Next]_vars
  /\ WF_vars(Tick)
  /\ \A d \in Devices : WF_vars(TimerFire(d))

\* ----------------------------------------------------------- vocabulary
Announced(d) == d <= nAdded
Commanded(d) == cmd[d].kind # "none"
Present(x) == x.t # "undefined"
TimerArmedFor(d) == timer[d].state # "none"

\* ----------------------------------------------------------------- claims

\* C1: in one session at most one action command (vibrate or linear) is
\* ever issued, however many eligible devices are announced.  The listener
\* keeps no "dispatched" flag, so this fails with two eligible devices.
C1_AtMostOneActionCommand ==
  Cardinality({d \in Devices : Commanded(d)}) <= 1

\* C2: a stop command goes only to a device that accepted an action
\* command before, and not before the request's timeout has passed since
\* the command was accepted.
C2_StopOnlyAfterTimeout ==
  \A d \in Devices :
    stopIssued[d] =>
      /\ Commanded(d)
      /\ accepted[d]
      /\ elapsed[d] >= cxt.timeout

C2_Witness ==
  \E d \in Devices : stopIssued[d] /\ cxt.timeout > 0 /\ elapsed[d] > 0

\* C3: every accepted action command is eventually followed by a stop
\* command to the same device, and an armed stop timer is never cancelled:
\* it stays armed until it fires, whatever else happens.  (accepted and
\* stopIssued are never reset, so "each accepted command leads to its
\* stop" is: again and again, every device that has accepted a command has
\* been sent stop.)
C3_AcceptedEventuallyStopped ==
  /\ []<>(\A d \in Devices : accepted[d] => stopIssued[d])
  /\ [][\A d \in Devices :
          /\ timer[d].state = "armed" => timer'[d].state \in {"armed", "fired"}
          /\ accepted[d] /\ ~stopIssued[d] => timer[d].state = "armed"]_vars

\* The stop was issued although the stop-scanning request failed, the scan
\* finished by itself and the entry point had returned.
C3_Witness ==
  \E d \in Devices :
    /\ stopIssued[d]
    /\ hpc[d] = "threw"
    /\ "Scanning Finished" \in console
    /\ pc = "done"
    /\ nAdded = MaxDevices

C5_NoDurationNoLinear ==
  Present(cxt.linear) /\ ~Present(cxt.linearDuration) =>
    \A d \in Devices : cmd[d].kind # "linear"

C5_Witness ==
  \E d \in Devices :
    /\ Truthy(cxt.linear) /\ ~Present(cxt.linearDuration)
    /\ ~Truthy(cxt.vibrate)
    /\ Announced(d) /\ dev[d].lin > 0
    /\ hpc[d] = "done"

\* What C6 promises of a device that is ignored: the session is connected
\* (and has asked for a scan once connect resolved), the device gets no
\* vibrate, linear or stop command and no stop timer, and its listener call
\* goes straight to the stop-scanning request: the entry point has not
\* failed, and the call can only fail with that request.
C6_Ignored(d) ==
  /\ connectCalls = 1 /\ conn \in {"listing", "open"}
  /\ conn = "open" => startScanCalls = 1
  /\ ~Commanded(d) /\ ~accepted[d]
  /\ ~TimerArmedFor(d) /\ ~stopIssued[d]
  /\ pc \notin {"threw", "returned"}
  /\ stopScanReq[d] /\ hpc[d] # "awaitAction"

\* C6 as stated: for a request with a linear payload and linearDuration, a
\* device with no linear actuator is ignored.
C6_AnyLinearRequest ==
  \A d \in Devices :
    /\ Present(cxt.linear) /\ Present(cxt.linearDuration)
    /\ Announced(d) /\ dev[d].lin = 0
    => C6_Ignored(d)

\* C6 amended: for a request with a linear payload and linearDuration and
\* no non-zero vibration payload, a device with no linear actuator is
\* ignored.
C6_NoLinearActuatorIgnored ==
  \A d \in Devices :
    /\ Present(cxt.linear) /\ Present(cxt.linearDuration)
    /\ ~Truthy(cxt.vibrate)
    /\ Announced(d) /\ dev[d].lin = 0
    => C6_Ignored(d)

C6_Witness ==
  \E d \in Devices :
    /\ Truthy(cxt.linear) /\ Truthy(cxt.linearDuration)
    /\ ~Truthy(cxt.vibrate)
    /\ Announced(d) /\ dev[d].lin = 0 /\ dev[d].vib > 0
    /\ hpc[d] = "done"
    /\ "Scanning Finished" \in console

\* C7: when connection establishment rejects, the entry point returns at
\* once: start-scanning is never called, no action or stop command is
\* sent, no stop timer is armed and connect is not called again.
C7_ConnectFailureEndsSession ==
  conn = "failed" =>
    /\ pc = "returned"
    /\ connectCalls = 1
    /\ startScanCalls = 0
    /\ ~scanning
    /\ wire = <<>>
    /\ \A d \in Devices :
         /\ ~Commanded(d) /\ ~stopScanReq[d]
         /\ ~TimerArmedFor(d) /\ ~stopIssued[d]

C7_Witness == conn = "failed" /\ pc = "returned" /\ "error" \in console

\* C8: when the address is not a well-formed URI the entry point throws
\* while parsing it: no client, no listener, no connection attempt, no
\* scan and no command.
C8_MalformedAddressFailsClosed ==
  ~NewURL(input.connectAddress).ok =>
    /\ pc \in {"entry", "threw"}
    /\ ~clientCreated
    /\ listeners = {}
    /\ connectCalls = 0
    /\ conn = "none"
    /\ connectorUrl = <<>>
    /\ startScanCalls = 0
    /\ ~scanning
    /\ wire = <<>>
    /\ nAdded = 0
    /\ \A d \in Devices : ~Commanded(d) /\ ~TimerArmedFor(d)

C8_Witness == pc = "threw" /\ input.connectAddress # <<>>

\* A vibrate request has found a device with a vibration actuator.
VibrateCase(d) ==
  Truthy(cxt.vibrate) /\ Announced(d) /\ dev[d].vib > 0

\* The order every session keeps for such a device: connect, then vibrate,
\* then (once vibrate is accepted) the stop-scanning request, then, after
\* the timeout, stop().
C9_DeviceOrder(d) ==
  /\ connectCalls = 1 /\ conn \in {"listing", "open"}
  /\ cmd[d].kind = "vibrate"
  /\ stopScanReq[d] => accepted[d]
  /\ accepted[d] => stopScanReq[d]
  /\ stopIssued[d] => stopScanReq[d] /\ elapsed[d] >= cxt.timeout

\* C9 as stated: connect, start-scan, vibrate, stop-scan, stop(): the
\* vibrate command and the stop-scanning request never precede start-scan.
C9_StartScanFirst ==
  \A d \in Devices :
    VibrateCase(d) => C9_DeviceOrder(d) /\ startScanCalls = 1

\* C9 amended: the order is connect, start-scan, vibrate, stop-scan,
\* stop() for a device announced once the connection is established; a
\* device the server already had is announced while connecting and gets
\* vibrate, stop-scan (and stop()) in that order, start-scan coming only
\* when connect resolves.
C9_OrderAfterConnect ==
  \A d \in Devices :
    VibrateCase(d) =>
      /\ C9_DeviceOrder(d)
      /\ ~known[d] => startScanCalls = 1
      /\ conn = "open" <=> startScanCalls = 1

C9_Witness ==
  \E d \in Devices :
    /\ VibrateCase(d) /\ ~known[d]
    /\ stopIssued[d] /\ hpc[d] = "done"
    /\ cxt.timeout > 0

\* C10: once a device-added event has been handled (its listener call has
\* run to the end), the server is not scanning, now or later.
C10_HaltedOnceHandled ==
  \A d \in Devices : hpc[d] = "done" => ~scanning

\* ---------------------------------------------------------------------------
\* Failed command submissions

ActionOnWire(d) ==
  \E i \in 1..Len(wire) : wire[i].d = d /\ wire[i].op \in {"vibrate", "linear"}

\* C11: when the device rejects the action command, no stop timer is armed
\* for that device, no stop() is issued for it, and the command is not
\* submitted again: it was submitted once and nothing of it is in flight.
C11_FailedNoTimerNoResend ==
  \A d \in Devices :
    failed[d] =>
      /\ ~TimerArmedFor(d)
      /\ ~stopIssued[d]
      /\ ~accepted[d]
      /\ sent[d] = 1
      /\ ~ActionOnWire(d)

C11_Witness ==
  \E d \in Devices :
    /\ failed[d] /\ Commanded(d)
    /\ \E e \in Devices : e # d /\ accepted[e] /\ stopIssued[e]

\* C12: after a failed command submission the stop-scanning request of
\* that device-added event is still issued, and the rejected listener call
\* has not unregistered the listeners or closed the connection.
C12_FailureKeepsStopScanning ==
  \A d \in Devices :
    failed[d] =>
      /\ stopScanReq[d]
      /\ listeners = {"deviceadded", "scanningfinished"}
      /\ conn \in {"listing", "open"}

\* ---------------------------------------------------------------------------
\* Listener registration

\* C13: both listeners are registered by the time client.connect is
\* called, so every device the server announces from then on, the ones it
\* already had included, is evaluated by the deviceadded listener.
C13_NoNotificationMissed ==
  /\ connectCalls > 0 => listeners = {"deviceadded", "scanningfinished"}
  /\ \A d \in Devices :
       Announced(d) =>
         /\ hpc[d] # "idle"
         /\ Commanded(d) <=> Classify(cxt, dev[d]) # "none"

C13_Witness ==
  \E d, e \in Devices :
    /\ known[d] /\ Commanded(d) /\ accepted[d]
    /\ Announced(e) /\ ~known[e] /\ hpc[e] = "done"

\* ---------------------------------------------------------------------------
\* Vibration requests

NumericVibrate(c) == c.vibrate.t = "number"

TimerCarriesTimeout(d) ==
  /\ TimerArmedFor(d)
  /\ timer[d].state = "armed" => timer[d].remaining + elapsed[d] = cxt.timeout

C15_SendIsConnect ==
  /\ [][entry = "lovetownSend" /\ pc = "entry" /\ pc' # "entry"
          => ConnectBody(input)]_vars
  /\ [](entry = "lovetownSend" /\ pc # "entry" => cxt = input)

C15_Witness ==
  /\ entry = "lovetownSend"
  /\ pc = "done"
  /\ \E d \in Devices :
       /\ cmd[d].kind = "linear" /\ stopIssued[d] /\ hpc[d] = "done"

\* ---------------------------------------------------------------------------
\* The scanningfinished notification

\* C16: the step in which the scanningfinished listener logs the end of
\* the scan sends no command, arms and cancels no timer, asks for no scan
\* start or stop, and leaves the listener calls in progress as they were.
C16_ScanningFinishedNoOp ==
  [][ "Scanning Finished" \notin console /\ "Scanning Finished" \in console'
        => UNCHANGED <<mainVars, conn, wire, deviceVars, handlerVars,
                       timerVars, pageVars>> ]_vars

C16_Witness ==
  /\ "Scanning Finished" \in console
  /\ \E d \in Devices : timer[d].state = "armed" /\ timer[d].remaining > 0
  /\ \E d \in Devices : hpc[d] = "awaitStopScanning"

\* ---------------------------------------------------------------------------
\* Order within one device-added handling

Evaluated(d) == hpc[d] \notin {"idle", "awaitAction"}

\* C17: once a discovered device has been evaluated, eligible or not, the
\* stop-scanning request of its device-added event has been issued; for an
\* eligible device it comes after the command was accepted and the stop
\* timer armed, for an ineligible one it is the only request.
C17_StopScanningAfterEvaluation ==
  \A d \in Devices :
    /\ Evaluated(d) => stopScanReq[d]
    /\ stopScanReq[d] /\ Commanded(d) => accepted[d] /\ TimerArmedFor(d)
    /\ stopScanReq[d] /\ ~Commanded(d) => ~accepted[d] /\ ~TimerArmedFor(d)

\* ---------------------------------------------------------------------------
\* One kind of command per session

\* C19: all action commands of a session are of one kind.  With a non-zero
\* vibrate no linear command is issued, not even to a device that has
\* linear actuators and no vibration actuator while linear and
\* linearDuration are given; a linear command is issued only with vibrate
\* absent or zero and linear and linearDuration both present and non-zero.
C19_SingleKind ==
  /\ \A d, e \in Devices :
       Commanded(d) /\ Commanded(e) => cmd[d].kind = cmd[e].kind
  /\ \A d \in Devices :
       /\ cmd[d].kind = "linear" =>
            /\ ~Truthy(cxt.vibrate)
            /\ Truthy(cxt.linear) /\ Truthy(cxt.linearDuration)
       /\ cmd[d].kind = "vibrate" => Truthy(cxt.vibrate)

C19_Witness ==
  \E d, e \in Devices :
    /\ Truthy(cxt.vibrate) /\ Truthy(cxt.linear) /\ Truthy(cxt.linearDuration)
    /\ dev[d].vib = 0 /\ dev[d].lin > 0 /\ hpc[d] = "done" /\ ~Commanded(d)
    /\ dev[e].vib > 0 /\ dev[e].lin > 0 /\ cmd[e].kind = "vibrate"
    /\ accepted[e]

\* ---------------------------------------------------------------------------
\* lovetownRuntime: clicks

\* C20: in lovetownRuntime no vibrate command is sent when a device is
\* discovered; each click sends vibrate(1.0) to the wired vibrating
\* devices and to no other; and no device gets a stop() sooner than
\* 3000 ms after a vibrate command was sent to it, whatever the clicks.
C20_ClickVibratesThreeSeconds ==
  /\ clicks = 0 => \A d \in Devices : sent[d] = 0 /\ ~Commanded(d)
  /\ \A d \in Devices :
       /\ Commanded(d) => cmd[d] = ClickCommand /\ dev[d].vib > 0
       /\ sent[d] <= clicks
       /\ ~early[d]

=============================================================================
